---- MODULE Spec2Model ----
(***************************************************************************)
(* Model of backend/routes.py: a Flask REST service over one MongoDB       *)
(* collection of songs (db.songs).                                         *)
(*                                                                         *)
(* A document is a function from field names to values.  Strings that the  *)
(* code inspects character by character (path segments, ObjectId hex       *)
(* forms) are sequences of one-character tokens; the token "sup2" stands   *)
(* for U+00B2 SUPERSCRIPT TWO, a character for which str.isdigit() is true *)
(* and int() raises ValueError.                                            *)
(***************************************************************************)
EXTENDS Integers, Sequences, FiniteSets, TLC

\* ------------------------------------------------------------------ bounds
\* Number of ObjectIds the driver hands out in one run (caps insert_one).
MaxOid == 1
\* Number of create requests that may be in flight at once (ConcSpec).
MaxProcs == 2

\* ------------------------------------------------------- program constants
\* Length of the hex form of a bson ObjectId (12 bytes).
OidLen == 24

\* --------------------------------------------------------------- characters
AsciiDigits == {"0", "1", "2", "3", "4", "5", "6", "7", "8", "9"}
LowerHex == {"a", "b", "c", "d", "e", "f"}
UpperHex == {"A", "B", "C", "D", "E", "F"}

\* str.isdigit() per character: decimal digits and other Digit-typed
\* characters such as U+00B2.
DigitChars == AsciiDigits \cup {"sup2"}

IsDigitChar(c) == c \in DigitChars

\* What int() accepts per character.
IsDecimalChar(c) == c \in AsciiDigits

DigitVal(c) ==
    CASE c = "0" -> 0 [] c = "1" -> 1 [] c = "2" -> 2 [] c = "3" -> 3
      [] c = "4" -> 4 [] c = "5" -> 5 [] c = "6" -> 6 [] c = "7" -> 7
      [] c = "8" -> 8 [] c = "9" -> 9

LowerChar(c) ==
    CASE c = "A" -> "a" [] c = "B" -> "b" [] c = "C" -> "c"
      [] c = "D" -> "d" [] c = "E" -> "e" [] c = "F" -> "f"
      [] OTHER -> c

\* id.isdigit()
isdigit(s) == Len(s) > 0 /\ \A i \in 1..Len(s) : IsDigitChar(s[i])

\* int(id) raises ValueError on a character that is a digit but no decimal.
IntRaises(s) == \E i \in 1..Len(s) : ~IsDecimalChar(s[i])

\* Value of the first n characters of s as a decimal numeral.
RECURSIVE IntPrefix(_, _)
IntPrefix(s, n) ==
    IF n = 0 THEN 0 ELSE 10 * IntPrefix(s, n - 1) + DigitVal(s[n])

int(s) == IntPrefix(s, Len(s))

\* ------------------------------------------------------------- native keys
HexChars == AsciiDigits \cup LowerHex \cup UpperHex

\* bson.ObjectId.is_valid for a str: 24 hexadecimal characters.
ObjectIdValid(s) ==
    /\ Len(s) = OidLen
    /\ \A i \in 1..Len(s) : s[i] \in HexChars

\* ObjectId(id): the 12 bytes, kept as their canonical lower-case hex form.
ObjectId(s) == [t |-> "oid", v |-> [i \in 1..Len(s) |-> LowerChar(s[i])]]

\* A JSON string used as a document's _id (it is never equal to an ObjectId).
StrKey(s) == [t |-> "str", v |-> s]

OidLead == <<"a", "0", "b", "c", "d", "e", "f">>
OidTail == <<"1", "2", "3", "4", "5", "6", "7">>

\* Hex form of the n-th ObjectId the driver generates.  The second one happens
\* to consist of decimal digits only; the others contain a letter.
OidHex(n) ==
    [i \in 1..OidLen |-> IF i = 1 THEN OidLead[n]
                         ELSE IF i = OidLen THEN OidTail[n] ELSE "0"]

NewObjectId(n) == ObjectId(OidHex(n))

\* The same key written with an upper-case letter.
UpperOidHex(n) ==
    [i \in 1..OidLen |-> IF OidHex(n)[i] = "a" THEN "A" ELSE OidHex(n)[i]]

\* ---------------------------------------------------------------- requests
PayloadIds == {1, 2}
ClientKey == StrKey(<<"k">>)

\* A JSON object with the chosen fields: k says whether "_id" is present,
\* i is the "id" (0 = absent), t the "title" ("-" = absent).
Object(k, i, t) ==
    [f \in (IF k THEN {"_id"} ELSE {}) \cup (IF i # 0 THEN {"id"} ELSE {})
            \cup (IF t # "-" THEN {"title"} ELSE {}) |->
        CASE f = "_id" -> ClientKey [] f = "id" -> i [] f = "title" -> t]

\* JSON objects a client sends (the empty object included): any choice of id
\* and title, and any choice of id together with an _id.
Objects ==
    {Object(FALSE, i, t) : i \in PayloadIds \cup {0}, t \in {"C", "-"}}
        \cup {Object(TRUE, i, "-") : i \in PayloadIds \cup {0}}

\* What request.get_json() meets: a JSON object, the JSON value null, a
\* non-empty JSON array, or a body that is no JSON (get_json raises BadRequest).
Payloads ==
    {[kind |-> "object", val |-> o] : o \in Objects}
        \cup {[kind |-> "null"], [kind |-> "array"], [kind |-> "malformed"]}

\* `if not song`
Falsy(pl) ==
    \/ pl.kind = "null"
    \/ pl.kind = "object" /\ DOMAIN pl.val = {}

\* Integers matched by the <int:id> converter.
PathIds == {1, 2}

\* Path segments matched by <id>.
Segments ==
    {<<"1">>, <<"sup2">>, <<"z", "z">>}
        \cup {OidHex(n) : n \in 1..MaxOid} \cup {UpperOidHex(1)}

\* ------------------------------------------------------- the document store
\* A query filter: {"id": v} or {"_id": v}.
Matches(d, sel) ==
    IF sel.by = "id" THEN "id" \in DOMAIN d /\ d["id"] = sel.v
    ELSE d["_id"] = sel.v

ById(n) == [by |-> "id", v |-> n]
ByKey(k) == [by |-> "_id", v |-> k]

\* Collection.find_one: position of the first match in natural order, 0 = None.
find_one(coll, sel) ==
    LET hits == {i \in 1..Len(coll) : Matches(coll[i], sel)} IN
    IF hits = {} THEN 0 ELSE CHOOSE i \in hits : \A j \in hits : i <= j

Remove(coll, i) == SubSeq(coll, 1, i - 1) \o SubSeq(coll, i + 1, Len(coll))

\* Collection.delete_one: the collection afterwards and deleted_count.
delete_one(coll, sel) ==
    LET i == find_one(coll, sel) IN
    IF i = 0 THEN [songs |-> coll, deleted_count |-> 0]
    ELSE [songs |-> Remove(coll, i), deleted_count |-> 1]

\* Mutant of SetFields: the update replaces the document by the given fields
\* (an update without $set), keeping only the _id.
SetFieldsReplaces(d, fields) ==
    [f \in (DOMAIN d \cap {"_id"}) \cup DOMAIN fields |->
        IF f \in DOMAIN fields THEN fields[f] ELSE d[f]]

\* {"$set": fields} applied to one document.
SetFields(d, fields) ==
    [f \in DOMAIN d \cup DOMAIN fields |->
        IF f \in DOMAIN fields THEN fields[f] ELSE d[f]]

\* Collection.find_one_and_update(sel, {"$set": pl}, ReturnDocument.AFTER).
\* The server rejects a $set whose operand is no document before it looks
\* for a match, and rejects a change of the immutable _id of the match.
find_one_and_update(coll, sel, pl) ==
    LET i == find_one(coll, sel) IN
    IF pl.kind # "object" THEN [raised |-> TRUE, songs |-> coll, idx |-> 0]
    ELSE IF i = 0 THEN [raised |-> FALSE, songs |-> coll, idx |-> 0]
    ELSE IF "_id" \in DOMAIN pl.val /\ pl.val["_id"] # coll[i]["_id"]
    THEN [raised |-> TRUE, songs |-> coll, idx |-> 0]
    ELSE [raised |-> FALSE,
          songs |-> [coll EXCEPT ![i] = SetFields(coll[i], pl.val)],
          idx |-> i]

KeysOf(coll) == {coll[i]["_id"] : i \in 1..Len(coll)}

\* Collection.insert_one(song): the driver adds a fresh ObjectId unless the
\* document carries an _id; the server refuses a duplicate _id.
insert_one(coll, noid, song) ==
    LET given == "_id" \in DOMAIN song
        key == IF given THEN song["_id"] ELSE NewObjectId(noid)
        doc == SetFields(song, [f \in {"_id"} |-> key])
    IN IF key \in KeysOf(coll)
       THEN [raised |-> TRUE, songs |-> coll, nextOid |-> noid, inserted_id |-> key]
       ELSE [raised |-> FALSE, songs |-> Append(coll, doc),
             nextOid |-> IF given THEN noid ELSE noid + 1, inserted_id |-> key]

\* json.loads(json_util.dumps(data)) on one document: an ObjectId becomes
\* {"$oid": <hex>}, every other value is kept.
RenderKey(k) == IF k.t = "oid" THEN [t |-> "$oid", v |-> k.v] ELSE k

parse_json(d) == [f \in DOMAIN d |-> IF f = "_id" THEN RenderKey(d[f]) ELSE d[f]]

\* ---------------------------------------------------------------- responses
Msg(key, text) == [kind |-> "message", key |-> key, val |-> text]
Doc(d) == [kind |-> "document", val |-> parse_json(d)]
NoContent == [kind |-> "empty"]

Reply(coll, noid, status, body) ==
    [songs |-> coll, nextOid |-> noid, status |-> status, body |-> body]

\* ----------------------------------------------------------------- handlers
\* Each handler is a function of the collection, the ObjectId counter, the
\* request and `fault`, which names the store call that raises
\* ("none": the store answers every call).

\* GET /count
count_songs(coll, noid, fault) ==
    IF fault # "none"
    THEN Reply(coll, noid, 500, Msg("error", "Internal server error"))
    ELSE Reply(coll, noid, 200, [kind |-> "count", val |-> Len(coll)])

\* GET /song
get_all_songs(coll, noid, fault) ==
    IF fault # "none"
    THEN Reply(coll, noid, 500, Msg("error", "Internal server error"))
    ELSE Reply(coll, noid, 200,
               [kind |-> "wrapped", val |-> [i \in 1..Len(coll) |-> parse_json(coll[i])]])

\* GET /songs
get_songs(coll, noid, fault) ==
    IF fault # "none"
    THEN Reply(coll, noid, 500, Msg("error", "Internal server error"))
    ELSE Reply(coll, noid, 200,
               [kind |-> "array", val |-> [i \in 1..Len(coll) |-> parse_json(coll[i])]])

\* Mutant of existing_song: the lookup names a field no document has and so
\* never finds a record.
existing_song_wrong_field(coll, song) == 0

\* existing_song = db.songs.find_one({"id": song['id']})
existing_song(coll, song) == find_one(coll, ById(song["id"]))

\* Mutant of AfterPayload: the insert follows the payload check at once.
AfterPayloadSkipsCheck(song) == "insert"

\* The store call that follows `if not song`: the lookup of line 102 when
\* the payload has an id, else the insert.
AfterPayload(song) == IF "id" \in DOMAIN song THEN "check" ELSE "insert"

CreateFailed(coll, noid) == Reply(coll, noid, 500, Msg("error", "Failed to create song"))

\* POST /song: create_song().  Store calls: "check" (find_one by id),
\* "insert" (insert_one), "fetch" (find_one by _id).
create_song(coll, noid, pl, fault) ==
    IF pl.kind = "malformed" THEN CreateFailed(coll, noid)
    ELSE IF Falsy(pl)
    THEN Reply(coll, noid, 400, Msg("error", "No input data provided"))
    ELSE IF pl.kind # "object" THEN CreateFailed(coll, noid)
    ELSE IF AfterPayload(pl.val) = "check" /\ fault = "check" THEN CreateFailed(coll, noid)
    ELSE IF AfterPayload(pl.val) = "check" /\ existing_song(coll, pl.val) # 0
    THEN Reply(coll, noid, 302, Msg("Message", "already present"))
    ELSE IF fault = "insert" THEN CreateFailed(coll, noid)
    ELSE LET result == insert_one(coll, noid, pl.val)
             new_song == find_one(result.songs, ByKey(result.inserted_id))
         IN IF result.raised THEN CreateFailed(coll, noid)
            ELSE IF fault = "fetch" THEN CreateFailed(result.songs, result.nextOid)
            ELSE Reply(result.songs, result.nextOid, 201, Doc(result.songs[new_song]))

\* POST /songs
create_song_legacy(coll, noid, pl, fault) == create_song(coll, noid, pl, fault)

NotFound(coll, noid, text) == Reply(coll, noid, 404, Msg("message", text))

\* PUT /song/<int:id>
handle_song_put(coll, noid, id, pl, fault) ==
    LET failed == Reply(coll, noid, 500, Msg("error", "Failed to update song"))
        upd == find_one_and_update(coll, ById(id), pl)
    IN IF pl.kind = "malformed" THEN failed
       ELSE IF Falsy(pl)
       THEN Reply(coll, noid, 400, Msg("error", "No input data provided"))
       ELSE IF fault # "none" \/ upd.raised THEN failed
       ELSE IF upd.idx = 0 THEN NotFound(coll, noid, "song not found")
       ELSE Reply(upd.songs, noid, 201, Doc(upd.songs[upd.idx]))

\* Mutant of handle_song_delete: deleted_count is not looked at.
handle_song_delete_unchecked(coll, noid, id, fault) ==
    IF fault # "none"
    THEN Reply(coll, noid, 500, Msg("error", "Failed to delete song"))
    ELSE Reply(delete_one(coll, ById(id)).songs, noid, 204, NoContent)

\* DELETE /song/<int:id>
handle_song_delete(coll, noid, id, fault) ==
    LET result == delete_one(coll, ById(id)) IN
    IF fault # "none"
    THEN Reply(coll, noid, 500, Msg("error", "Failed to delete song"))
    ELSE IF result.deleted_count = 0 THEN NotFound(coll, noid, "song not found")
    ELSE Reply(result.songs, noid, 204, NoContent)

\* GET /song/<int:id>: the find_one is outside any try, so an exception
\* leaves the handler and Flask answers with its own error page.
handle_song_get(coll, noid, id, fault) ==
    LET song == find_one(coll, ById(id)) IN
    IF fault # "none" THEN Reply(coll, noid, 500, [kind |-> "unhandled"])
    ELSE IF song # 0 THEN Reply(coll, noid, 200, Doc(coll[song]))
    ELSE NotFound(coll, noid, "song not found")

\* GET /songs/<id>
get_song(coll, noid, id, fault) ==
    LET invalid == Reply(coll, noid, 400, Msg("error", "Invalid song ID"))
        digits == isdigit(id)
        song == IF digits THEN find_one(coll, ById(int(id)))
                ELSE IF ~ObjectIdValid(id) \/ fault # "none" THEN 0
                ELSE find_one(coll, ByKey(ObjectId(id)))
    IN IF digits /\ (IntRaises(id) \/ fault # "none") THEN invalid
       ELSE IF song # 0 THEN Reply(coll, noid, 200, Doc(coll[song]))
       ELSE NotFound(coll, noid, "Song not found")

\* PUT /songs/<id>
update_song_legacy(coll, noid, id, pl, fault) ==
    LET failed == Reply(coll, noid, 500, Msg("error", "Failed to update song"))
        badid == Reply(coll, noid, 400, Msg("error", "Invalid song ID format"))
        digits == isdigit(id)
        upd == IF digits THEN find_one_and_update(coll, ById(int(id)), pl)
               ELSE find_one_and_update(coll, ByKey(ObjectId(id)), pl)
    IN IF pl.kind = "malformed" THEN failed
       ELSE IF Falsy(pl)
       THEN Reply(coll, noid, 400, Msg("error", "No input data provided"))
       ELSE IF digits /\ (IntRaises(id) \/ fault # "none" \/ upd.raised) THEN failed
       ELSE IF ~digits /\ (~ObjectIdValid(id) \/ fault # "none" \/ upd.raised)
       THEN badid
       ELSE IF upd.idx = 0 THEN NotFound(coll, noid, "song not found")
       ELSE Reply(upd.songs, noid, 201, Doc(upd.songs[upd.idx]))

\* DELETE /songs/<id>
delete_song_legacy(coll, noid, id, fault) ==
    LET digits == isdigit(id)
        result == IF digits THEN delete_one(coll, ById(int(id)))
                  ELSE delete_one(coll, ByKey(ObjectId(id)))
        none == ~digits /\ (~ObjectIdValid(id) \/ fault # "none")
    IN IF digits /\ (IntRaises(id) \/ fault # "none")
       THEN Reply(coll, noid, 500, Msg("error", "Failed to delete song"))
       ELSE IF none \/ result.deleted_count = 0 THEN NotFound(coll, noid, "Song not found")
       ELSE Reply(result.songs, noid, 204, NoContent)

\* -------------------------------------------------------------------- state
\* songs:    db.songs, in natural (insertion) order
\* nextOid:  how many ObjectIds the driver has generated, plus one
\* last:     the request served last by a single-store-call handler (or by
\*           create_song run to completion) and the response it got
\* inflight: the create_song requests in progress, one per worker thread
VARIABLES songs, nextOid, last, inflight

vars == <<songs, nextOid, last, inflight>>

Procs == 1..MaxProcs

NoKey == [t |-> "none", v |-> << >>]

\* A worker thread that serves no create request: no payload read, no
\* existing_song looked up, no result of insert_one, no response.
Idle ==
    [pc |-> "idle", song |-> [kind |-> "null"], existing_song |-> "unset",
     inserted_id |-> NoKey, status |-> 0, body |-> NoContent]

\* db.songs.drop(); db.songs.insert_many(songs_list): the seed file is either
\* empty or holds one song, which gets the first ObjectId.
SeedSong == [f \in {"_id", "id", "title"} |->
                CASE f = "_id" -> NewObjectId(1) [] f = "id" -> 1 [] f = "title" -> "A"]

Seeds == {<< >>, <<SeedSong>>}

Init ==
    /\ songs \in Seeds
    /\ nextOid = Len(songs) + 1
    /\ last = [op |-> "start", target |-> 0, status |-> 0, body |-> NoContent]
    /\ inflight = [p \in Procs |-> Idle]

\* The response leaves the handler; the store keeps what the handler did.
Respond(op, target, r) ==
    /\ r.nextOid <= MaxOid + 1
    /\ songs' = r.songs
    /\ nextOid' = r.nextOid
    /\ last' = [op |-> op, target |-> target, status |-> r.status, body |-> r.body]
    /\ UNCHANGED inflight

Index ==
    Respond("GET /", 0, Reply(songs, nextOid, 200, [kind |-> "metadata"]))

HealthCheck ==
    Respond("GET /health", 0, Reply(songs, nextOid, 200, [kind |-> "status"]))

CountSongs(fault) == Respond("GET /count", 0, count_songs(songs, nextOid, fault))

GetAllSongs(fault) == Respond("GET /song", 0, get_all_songs(songs, nextOid, fault))

GetSongs(fault) == Respond("GET /songs", 0, get_songs(songs, nextOid, fault))

CreateSong(pl, fault) ==
    Respond("POST /song", 0, create_song(songs, nextOid, pl, fault))

CreateSongLegacy(pl, fault) ==
    Respond("POST /songs", 0, create_song_legacy(songs, nextOid, pl, fault))

HandleSongGet(id, fault) ==
    Respond("GET /song/<int:id>", id, handle_song_get(songs, nextOid, id, fault))

HandleSongPut(id, pl, fault) ==
    Respond("PUT /song/<int:id>", id, handle_song_put(songs, nextOid, id, pl, fault))

HandleSongDelete(id, fault) ==
    Respond("DELETE /song/<int:id>", id, handle_song_delete(songs, nextOid, id, fault))

GetSong(id, fault) ==
    Respond("GET /songs/<id>", id, get_song(songs, nextOid, id, fault))

UpdateSongLegacy(id, pl, fault) ==
    Respond("PUT /songs/<id>", id, update_song_legacy(songs, nextOid, id, pl, fault))

DeleteSongLegacy(id, fault) ==
    Respond("DELETE /songs/<id>", id, delete_song_legacy(songs, nextOid, id, fault))

\* Requests served one at a time by a store that answers every call.
Next ==
    \/ Index
    \/ HealthCheck
    \/ CountSongs("none")
    \/ GetAllSongs("none")
    \/ GetSongs("none")
    \/ \E pl \in Payloads : CreateSong(pl, "none")
    \/ \E pl \in Payloads : CreateSongLegacy(pl, "none")
    \/ \E id \in PathIds : HandleSongGet(id, "none")
    \/ \E id \in PathIds, pl \in Payloads : HandleSongPut(id, pl, "none")
    \/ \E id \in PathIds : HandleSongDelete(id, "none")
    \/ \E id \in Segments : GetSong(id, "none")
    \/ \E id \in Segments, pl \in Payloads : UpdateSongLegacy(id, pl, "none")
    \/ \E id \in Segments : DeleteSongLegacy(id, "none")

Spec == Init /\ [][Next]_vars

\* ------------------------------------------------- a store that may fail
\* The same requests, served one at a time; any one store call of a request
\* may raise (connection lost, server error).
FaultNext ==
    \/ Index
    \/ HealthCheck
    \/ \E fault \in {"none", "call"} : CountSongs(fault)
    \/ \E fault \in {"none", "call"} : GetAllSongs(fault)
    \/ \E fault \in {"none", "call"} : GetSongs(fault)
    \/ \E pl \in Payloads, fault \in {"none", "check", "insert", "fetch"} :
            CreateSong(pl, fault)
    \/ \E pl \in Payloads, fault \in {"none", "check", "insert", "fetch"} :
            CreateSongLegacy(pl, fault)
    \/ \E id \in PathIds, fault \in {"none", "call"} : HandleSongGet(id, fault)
    \/ \E id \in PathIds, pl \in Payloads, fault \in {"none", "call"} :
            HandleSongPut(id, pl, fault)
    \/ \E id \in PathIds, fault \in {"none", "call"} : HandleSongDelete(id, fault)
    \/ \E id \in Segments, fault \in {"none", "call"} : GetSong(id, fault)
    \/ \E id \in Segments, pl \in Payloads, fault \in {"none", "call"} :
            UpdateSongLegacy(id, pl, fault)
    \/ \E id \in Segments, fault \in {"none", "call"} : DeleteSongLegacy(id, fault)

FaultSpec == Init /\ [][FaultNext]_vars

\* ------------------------------------------------------ concurrent requests
\* create_song makes up to three store calls; other requests may be served
\* between any two of them.  Every other handler makes one store call, which
\* the store executes atomically.
Finish(p, status, body) ==
    inflight' = [inflight EXCEPT ![p].pc = "done", ![p].status = status, ![p].body = body]

\* song = request.get_json(); if not song: ...; if 'id' in song: ...
CreateBegin(p, pl) ==
    /\ inflight[p].pc = "idle"
    /\ IF pl.kind = "malformed"
       THEN inflight' = [inflight EXCEPT ![p].pc = "done", ![p].song = pl,
                            ![p].status = 500,
                            ![p].body = Msg("error", "Failed to create song")]
       ELSE IF Falsy(pl)
       THEN inflight' = [inflight EXCEPT ![p].pc = "done", ![p].song = pl,
                            ![p].status = 400,
                            ![p].body = Msg("error", "No input data provided")]
       ELSE IF pl.kind # "object"
       THEN inflight' = [inflight EXCEPT ![p].pc = "done", ![p].song = pl,
                            ![p].status = 500,
                            ![p].body = Msg("error", "Failed to create song")]
       ELSE inflight' = [inflight EXCEPT ![p].song = pl,
                            ![p].pc = AfterPayload(pl.val)]
    /\ UNCHANGED <<songs, nextOid, last>>

\* existing_song = db.songs.find_one(...); if existing_song: ...
CreateCheck(p) ==
    /\ inflight[p].pc = "check"
    /\ IF existing_song(songs, inflight[p].song.val) # 0
       THEN inflight' = [inflight EXCEPT ![p].pc = "done", ![p].existing_song = "found",
                            ![p].status = 302,
                            ![p].body = Msg("Message", "already present")]
       ELSE inflight' = [inflight EXCEPT ![p].pc = "insert", ![p].existing_song = "none"]
    /\ UNCHANGED <<songs, nextOid, last>>

\* result = db.songs.insert_one(song)
CreateInsert(p) ==
    LET result == insert_one(songs, nextOid, inflight[p].song.val) IN
    /\ inflight[p].pc = "insert"
    /\ result.nextOid <= MaxOid + 1
    /\ songs' = result.songs
    /\ nextOid' = result.nextOid
    /\ IF result.raised
       THEN Finish(p, 500, Msg("error", "Failed to create song"))
       ELSE inflight' = [inflight EXCEPT ![p].pc = "fetch",
                            ![p].inserted_id = result.inserted_id]
    /\ UNCHANGED last

\* new_song = db.songs.find_one({"_id": result.inserted_id}); parse_json(None)
\* is the JSON value null.
CreateFetch(p) ==
    LET new_song == find_one(songs, ByKey(inflight[p].inserted_id)) IN
    /\ inflight[p].pc = "fetch"
    /\ Finish(p, 201, IF new_song = 0 THEN [kind |-> "null"] ELSE Doc(songs[new_song]))
    /\ UNCHANGED <<songs, nextOid, last>>

\* Payloads of the create requests that run concurrently.
ConcPayloads ==
    {[kind |-> "object", val |-> Object(k, i, "-")] : k \in BOOLEAN, i \in {0, 1}}
        \cup {[kind |-> "malformed"], [kind |-> "array"]}

ConcNext ==
    \/ \E p \in Procs, pl \in ConcPayloads : CreateBegin(p, pl)
    \/ \E p \in Procs : CreateCheck(p)
    \/ \E p \in Procs : CreateInsert(p)
    \/ \E p \in Procs : CreateFetch(p)
    \/ \E id \in PathIds : HandleSongGet(id, "none")
    \/ \E id \in PathIds : HandleSongPut(id, [kind |-> "object", val |-> Object(FALSE, 2, "-")], "none")
    \/ \E id \in PathIds : HandleSongDelete(id, "none")

ConcSpec == Init /\ [][ConcNext]_vars

\* ------------------------------------------------------------------ claims
NumericRoutes == {"GET /song/<int:id>", "PUT /song/<int:id>", "DELETE /song/<int:id>"}
FlexibleRoutes == {"GET /songs/<id>", "PUT /songs/<id>", "DELETE /songs/<id>"}
CreateRoutes == {"POST /song", "POST /songs"}
UpdateRoutes == {"PUT /song/<int:id>", "PUT /songs/<id>"}

HasId(d, n) == "id" \in DOMAIN d /\ d["id"] = n

NonEmptyObject(pl) == pl.kind = "object" /\ DOMAIN pl.val # {}

NonEmptyObjects == {pl \in Payloads : NonEmptyObject(pl)}

\* The non-empty JSON objects that do not name the native-key field.
PlainObjects == {pl \in NonEmptyObjects : "_id" \notin DOMAIN pl.val}

\* A path segment made of the decimal digits 0-9 only.
AllDecimal(s) == Len(s) > 0 /\ \A i \in 1..Len(s) : s[i] \in AsciiDigits

\* C1: with requests served one at a time, no two records of the collection
\* carry the same id.
C1_UniqueIds ==
    \A i, j \in 1..Len(songs) :
        (i # j /\ "id" \in DOMAIN songs[i] /\ "id" \in DOMAIN songs[j])
            => songs[i]["id"] # songs[j]["id"]

\* C2: a create (POST /song or POST /songs) whose payload carries the id of a
\* record already present answers 302 and leaves the collection as it was.
C2_DuplicateCreateRejected ==
    [][last'.op \in CreateRoutes =>
        \A pl \in Payloads :
          ( /\ pl.kind = "object"
            /\ "id" \in DOMAIN pl.val
            /\ \E i \in 1..Len(songs) : HasId(songs[i], pl.val["id"])
            /\ (CreateSong(pl, "none") \/ CreateSongLegacy(pl, "none")) )
          => (last'.status = 302 /\ songs' = songs)]_vars

C2_Witness ==
    /\ last.op \in {"POST /song", "POST /songs"}
    /\ last.status = 302
    /\ Len(songs) > 0

\* The effect an update of the record at position i with object payload pl
\* is claimed to have.
MergedAt(i, pl) ==
    /\ last'.status = 201
    /\ last'.body.kind = "document"
    /\ Len(songs') = Len(songs)
    /\ last'.body.val = parse_json(songs'[i])
    /\ DOMAIN songs'[i] = DOMAIN songs[i] \cup DOMAIN pl.val
    /\ \A f \in DOMAIN pl.val : songs'[i][f] = pl.val[f]
    /\ \A f \in DOMAIN songs[i] \ DOMAIN pl.val : songs'[i][f] = songs[i][f]
    /\ \A j \in 1..Len(songs) : j # i => songs'[j] = songs[j]

\* The step is a request to the route op whose path parameter is read as the
\* integer id.
Targets(op, id) ==
    /\ last'.op = op
    /\ IF op \in NumericRoutes THEN last'.target = id
       ELSE AllDecimal(last'.target) /\ int(last'.target) = id

\* An update by the integer id, on either route.
UpdateBy(id, pl) ==
    \/ Targets("PUT /song/<int:id>", id) /\ HandleSongPut(id, pl, "none")
    \/ Targets("PUT /songs/<id>", id) /\ UpdateSongLegacy(last'.target, pl, "none")

\* C3 as stated: every non-empty payload, the native-key field included.
C3_UpdateMergesAnyPayload ==
    [][last'.op \in UpdateRoutes =>
        \A id \in PathIds :
          (Targets(last'.op, id) /\ find_one(songs, ById(id)) # 0) =>
            \A pl \in NonEmptyObjects :
                UpdateBy(id, pl) => MergedAt(find_one(songs, ById(id)), pl)]_vars

\* C3, amended: for a non-empty JSON object payload that does not name _id,
\* an update by N answers 201 with the first record of id N after the merge:
\* the payload's fields have the payload's values, every other field (the
\* native key included) and every other record are as before.
C3_UpdateMerges ==
    [][last'.op \in UpdateRoutes =>
        \A id \in PathIds :
          (Targets(last'.op, id) /\ find_one(songs, ById(id)) # 0) =>
            \A pl \in PlainObjects :
                UpdateBy(id, pl)
                => ( /\ MergedAt(find_one(songs, ById(id)), pl)
                     /\ songs'[find_one(songs, ById(id))]["_id"]
                          = songs[find_one(songs, ById(id))]["_id"] )]_vars

C3_Witness ==
    /\ last.op \in {"PUT /song/<int:id>", "PUT /songs/<id>"}
    /\ last.status = 201
    /\ \E i \in 1..Len(songs) :
          /\ last.body.val = parse_json(songs[i])
          /\ DOMAIN songs[i] = {"_id", "id", "title"}
          /\ songs[i]["title"] = "C"
          /\ songs[i]["id"] = 1
          /\ songs[i]["_id"] = NewObjectId(1)

\* A get, update or delete by the integer id, on either route.
GetBy(id) ==
    \/ Targets("GET /song/<int:id>", id) /\ HandleSongGet(id, "none")
    \/ Targets("GET /songs/<id>", id) /\ GetSong(last'.target, "none")

DeleteBy(id) ==
    \/ Targets("DELETE /song/<int:id>", id) /\ HandleSongDelete(id, "none")
    \/ Targets("DELETE /songs/<id>", id) /\ DeleteSongLegacy(last'.target, "none")

Missing(id) == \A i \in 1..Len(songs) : ~HasId(songs[i], id)

\* C4 as stated: 404 whatever the payload of the update.
C4_MissingIdAnyPayload ==
    [][last'.op \in NumericRoutes \cup FlexibleRoutes =>
        \A id \in PathIds :
          ( /\ Targets(last'.op, id)
            /\ Missing(id)
            /\ (GetBy(id) \/ DeleteBy(id) \/ \E pl \in Payloads : UpdateBy(id, pl)) )
          => (last'.status = 404 /\ songs' = songs)]_vars

\* C4, amended: when no record has id N, get and delete by N, and update by N
\* with a non-empty JSON object payload, answer 404 and leave the collection
\* as it was.
C4_MissingIdNotFound ==
    [][last'.op \in NumericRoutes \cup FlexibleRoutes =>
        \A id \in PathIds :
          ( /\ Targets(last'.op, id)
            /\ Missing(id)
            /\ \/ GetBy(id)
               \/ DeleteBy(id)
               \/ \E pl \in NonEmptyObjects : UpdateBy(id, pl) )
          => (last'.status = 404 /\ songs' = songs)]_vars

C4_Witness ==
    /\ last.op = "PUT /song/<int:id>"
    /\ last.status = 404
    /\ Missing(last.target)
    /\ Len(songs) > 0

\* C5: a delete by an id that matches a record answers 204, leaves no record
\* of that id, and the same delete repeated at once answers 404.
C5_DeleteTwice ==
    [][\A id \in PathIds :
          (~Missing(id) /\ DeleteBy(id))
          => ( /\ last'.status = 204
               /\ \A i \in 1..Len(songs') : ~HasId(songs'[i], id)
               /\ handle_song_delete(songs', nextOid', id, "none").status = 404 )]_vars

\* What C6 says a flexible-route request selects: the position of the record
\* of that application id for an all-decimal segment, else the position of
\* the record of that native key, 0 when there is none or the key is invalid.
Selected(coll, seg) ==
    IF AllDecimal(seg) THEN find_one(coll, ById(int(seg)))
    ELSE IF ObjectIdValid(seg) THEN find_one(coll, ByKey(ObjectId(seg)))
    ELSE 0

InvalidKey(seg) == ~AllDecimal(seg) /\ ~ObjectIdValid(seg)

\* C6: GET, PUT and DELETE /songs/{id} resolve the segment alike; a segment
\* that is neither all-decimal nor a valid native key gives 404 on get and
\* delete and 400 on update.
C6_FlexibleResolution ==
    [][\A seg \in Segments :
          (last'.op \in FlexibleRoutes /\ last'.target = seg) =>
          /\ GetSong(seg, "none")
                => IF Selected(songs, seg) = 0 THEN last'.status = 404
                   ELSE /\ last'.status = 200
                        /\ last'.body.val = parse_json(songs[Selected(songs, seg)])
          /\ DeleteSongLegacy(seg, "none")
                => IF Selected(songs, seg) = 0 THEN last'.status = 404
                   ELSE /\ last'.status = 204
                        /\ songs' = Remove(songs, Selected(songs, seg))
          /\ \A pl \in Payloads :
                (NonEmptyObject(pl) /\ "_id" \notin DOMAIN pl.val
                    /\ UpdateSongLegacy(seg, pl, "none"))
                => IF InvalidKey(seg) THEN last'.status = 400
                   ELSE IF Selected(songs, seg) = 0 THEN last'.status = 404
                   ELSE /\ last'.status = 201
                        /\ last'.body.val = parse_json(songs'[Selected(songs, seg)])]_vars

\* C7: a create with a non-empty object payload without id answers 201 with
\* the stored record, whose native key no record had before.
C7_CreateWithoutId ==
    [][\A pl \in Payloads :
          ( /\ last'.op \in CreateRoutes
            /\ NonEmptyObject(pl)
            /\ "id" \notin DOMAIN pl.val
            /\ (CreateSong(pl, "none") \/ CreateSongLegacy(pl, "none")) )
          => ( /\ last'.status = 201
               /\ Len(songs') = Len(songs) + 1
               /\ last'.body.val = parse_json(songs'[Len(songs')])
               /\ songs'[Len(songs')]["_id"] \notin KeysOf(songs) )]_vars

\* C8: the native key of a new record is an ObjectId the driver generated,
\* never a value of the payload, and no request changes the key of a record.
C8_NativeKeyFromStore ==
    [][ /\ Len(songs') = Len(songs) + 1
            => /\ songs'[Len(songs')]["_id"] = NewObjectId(nextOid)
               /\ \A i \in 1..Len(songs) : songs'[i]["_id"] = songs[i]["_id"]
        /\ Len(songs') = Len(songs)
            => \A i \in 1..Len(songs) : songs'[i]["_id"] = songs[i]["_id"] ]_vars

\* The response to a request one of whose store calls raised, as C9 has it.
InternalError ==
    /\ last'.status = 500
    /\ last'.body.kind = "message"

\* The store call of a flexible-route request is reached: the segment is
\* all-decimal or a valid native key.
Reaches(seg) == AllDecimal(seg) \/ (~isdigit(seg) /\ ObjectIdValid(seg))

\* C9: every handler answers a raised store call with 500 and an error
\* message, and lets no exception escape.
C9_StoreFailureIs500 ==
    [][ /\ (CountSongs("call") \/ GetAllSongs("call") \/ GetSongs("call")) => InternalError
        /\ \A id \in PathIds :
              (HandleSongGet(id, "call") \/ HandleSongDelete(id, "call")) => InternalError
        /\ \A id \in PathIds, pl \in Payloads :
              (NonEmptyObject(pl) /\ HandleSongPut(id, pl, "call")) => InternalError
        /\ \A seg \in Segments :
              (Reaches(seg) /\ (GetSong(seg, "call") \/ DeleteSongLegacy(seg, "call")))
                  => InternalError
        /\ \A seg \in Segments, pl \in Payloads :
              (Reaches(seg) /\ NonEmptyObject(pl) /\ UpdateSongLegacy(seg, pl, "call"))
                  => InternalError
        /\ \A pl \in Payloads :
              (NonEmptyObject(pl) /\ "id" \in DOMAIN pl.val /\ CreateSong(pl, "check"))
                  => InternalError
        /\ \A pl \in Payloads :
              ( /\ NonEmptyObject(pl)
                /\ "id" \in DOMAIN pl.val => Missing(pl.val["id"])
                /\ (CreateSong(pl, "insert") \/ CreateSong(pl, "fetch")) )
                  => InternalError ]_vars

\* C10: a create request that has inserted a song carrying an id has looked
\* that id up before and found no record; the lookup and the insert are
\* separate steps, so two requests with the same id can both get that far
\* (C10_Race).
C10_CheckBeforeInsert ==
    \A p \in Procs :
        ( /\ inflight[p].pc = "fetch" \/ (inflight[p].pc = "done" /\ inflight[p].status = 201)
          /\ "id" \in DOMAIN inflight[p].song.val )
        => inflight[p].existing_song = "none"

C10_Race ==
    \E p, q \in Procs :
        /\ p # q
        /\ inflight[p].pc = "done" /\ inflight[p].status = 201
        /\ inflight[q].pc = "done" /\ inflight[q].status = 201
        /\ inflight[p].existing_song = "none" /\ inflight[q].existing_song = "none"
        /\ inflight[p].song.val["id"] = inflight[q].song.val["id"]
        /\ inflight[p].body.kind = "document" /\ inflight[q].body.kind = "document"
        /\ \E i, j \in 1..Len(songs) :
              /\ i # j
              /\ HasId(songs[i], inflight[p].song.val["id"])
              /\ HasId(songs[j], inflight[p].song.val["id"])

====
